---- MODULE Spec2Model ----
(***************************************************************************)
(* Model of SudokuGame (src/task2.py): the 9x9 grid, the backtracking      *)
(* solver, the AC-3 style propagation with its backtracking fallback,      *)
(* puzzle loading and reset, and the two UI handlers that edit a cell.     *)
(*                                                                         *)
(* Python lists are mutable objects, so a grid is an object in `heap` and  *)
(* self.puzzle / self.original_puzzle / the entries of self.puzzles are    *)
(* references to heap objects.                                             *)
(***************************************************************************)
EXTENDS Integers, Sequences, FiniteSets, TLC

VARIABLES
    files,            \* history: the grids as read from the puzzle files
    puzzles,          \* self.puzzles: difficulty -> list of references
    heap,             \* reference -> 9x9 grid (list of rows)
    puzzle,           \* self.puzzle (a reference)
    original_puzzle,  \* self.original_puzzle (a reference)
    ui_row, ui_col,   \* SudokuUI.row, SudokuUI.col (the cursor)
    pc,               \* position inside ac3_solve: "idle" outside any call
    domains,          \* ac3_solve local: cell -> set of candidates
    queue,            \* ac3_solve local: FIFO of cells
    xi,               \* ac3_solve local: the dequeued cell (row, col)
    pending,          \* ac3_solve local: neighbors the for loop still visits
    ret,              \* value returned by the most recent solver call, if any
    call,             \* history: the most recent operation and its arguments
    start_grid,       \* history: the grid when the most recent solver call began
    loaded_grid,      \* history: the grid right after the last successful load
    enqueued,         \* history: number of enqueues of the current ac3_solve
    fell_back         \* history: the current ac3_solve called backtracking_solve

vars == <<files, puzzles, heap, puzzle, original_puzzle, ui_row, ui_col, pc,
          domains, queue, xi, pending, ret, call, start_grid, loaded_grid,
          enqueued,
                   fell_back>>

(***************************************************************************)
(* Grid geometry                                                           *)
(***************************************************************************)
N == 9
BLOCK == 3
Idx == 0 .. (N - 1)
Cells == Idx \X Idx
Digits == 1 .. N
None == <<>>

\* [[0] * 9 for _ in range(9)]
ZeroGrid == [r \in Idx |-> [c \in Idx |-> 0]]

\* [row[:] for row in grid]: a new list of new rows with the same contents
CopyRows(grid) == [r \in Idx |-> [c \in Idx |-> grid[r][c]]]

\* grid[row][col] = value
SetCell(grid, row, col, value) == [grid EXCEPT ![row][col] = value]

(***************************************************************************)
(* Board primitives                                                        *)
(***************************************************************************)
check_win(p) == \A r \in Idx : ~ \E c \in Idx : p[r][c] = 0

find_empty_cell(p) ==
    LET empty == {cell \in Cells : p[cell[1]][cell[2]] = 0}
    IN  IF empty = {} THEN None
        ELSE CHOOSE cell \in empty :
                \A other \in empty :
                    \/ cell[1] < other[1]
                    \/ cell[1] = other[1] /\ cell[2] <= other[2]

is_valid_norow(p, num, row, col) ==
    LET start_row == BLOCK * (row \div BLOCK)
        start_col == BLOCK * (col \div BLOCK)
    IN  /\ ~ \E i \in Idx : p[i][col] = num
        /\ ~ \E i \in 0 .. (BLOCK - 1) : \E j \in 0 .. (BLOCK - 1) :
                p[start_row + i][start_col + j] = num

is_valid(p, num, row, col) ==
    LET start_row == BLOCK * (row \div BLOCK)
        start_col == BLOCK * (col \div BLOCK)
    IN  /\ ~ \E k \in Idx : p[row][k] = num
        /\ ~ \E i \in Idx : p[i][col] = num
        /\ ~ \E i \in 0 .. (BLOCK - 1) : \E j \in 0 .. (BLOCK - 1) :
                p[start_row + i][start_col + j] = num

(***************************************************************************)
(* backtracking_solve: the result is the returned flag and the grid the    *)
(* call leaves behind.  try_candidates is the for loop over num, entered   *)
(* at candidate num: the iterations whose is_valid is False do nothing, so *)
(* the loop moves to the least admissible num, places it, recurses, and on *)
(* failure resets the cell and goes on with the next candidate.            *)
(***************************************************************************)
RECURSIVE backtracking_solve(_)
RECURSIVE try_candidates(_, _, _, _)
RECURSIVE try_candidates_noreset(_, _, _, _)

Least(numbers) == CHOOSE n \in numbers : \A m \in numbers : n <= m

try_candidates_noreset(p, row, col, num) ==
    LET admissible == {n \in num .. N : is_valid(p, n, row, col)}
    IN  IF admissible = {} THEN [ret |-> FALSE, puzzle |-> p]
        ELSE LET sub == backtracking_solve(SetCell(p, row, col, Least(admissible)))
             IN  IF sub.ret THEN sub
                 ELSE try_candidates_noreset(sub.puzzle, row, col,
                                             Least(admissible) + 1)

try_candidates(p, row, col, num) ==
    LET admissible == {n \in num .. N : is_valid(p, n, row, col)}
    IN  IF admissible = {} THEN [ret |-> FALSE, puzzle |-> p]
        ELSE LET sub == backtracking_solve(SetCell(p, row, col, Least(admissible)))
             IN  IF sub.ret THEN sub
                 ELSE try_candidates(SetCell(sub.puzzle, row, col, 0), row, col,
                                     Least(admissible) + 1)

\* the same search with the candidates taken from 9 down to 1
RECURSIVE try_descending(_, _, _, _)
try_descending(p, row, col, num) ==
    LET admissible == {n \in 1 .. num : is_valid(p, n, row, col)}
        greatest == CHOOSE n \in admissible : \A m \in admissible : m <= n
    IN  IF admissible = {} THEN [ret |-> FALSE, puzzle |-> p]
        ELSE LET sub == backtracking_solve(SetCell(p, row, col, greatest))
             IN  IF sub.ret THEN sub
                 ELSE try_descending(SetCell(sub.puzzle, row, col, 0), row, col,
                                     greatest - 1)

backtracking_solve_descending(p) ==
    LET empty_cell == find_empty_cell(p)
    IN  IF empty_cell = None THEN [ret |-> TRUE, puzzle |-> p]
        ELSE try_descending(p, empty_cell[1], empty_cell[2], N)

backtracking_solve(p) ==
    LET empty_cell == find_empty_cell(p)
    IN  IF empty_cell = None THEN [ret |-> TRUE, puzzle |-> p]
        ELSE try_candidates(p, empty_cell[1], empty_cell[2], 1)

(***************************************************************************)
(* ac3_solve helpers                                                       *)
(***************************************************************************)
get_neighbors(row, col) ==
    LET block_row == row - (row % BLOCK)
        block_col == col - (col % BLOCK)
    IN  ( {<<row, k>> : k \in Idx \ {col}}
          \cup {<<k, col>> : k \in Idx \ {row}}
          \cup {<<block_row + (k \div BLOCK), block_col + (k % BLOCK)>> : k \in Idx} )
        \ {<<row, col>>}

get_domain(p, row, col) ==
    IF p[row][col] # 0 THEN {p[row][col]}
    ELSE LET block_row == row - (row % BLOCK)
             block_col == col - (col % BLOCK)
         IN  Digits \ ( {p[row][k] : k \in Idx}
                        \cup {p[k][col] : k \in Idx}
                        \cup {p[block_row + (k \div BLOCK)][block_col + (k % BLOCK)] :
                                 k \in Idx} )

\* domains = {(row, col): get_domain(...) for row ... for col ...}
init_domains(p) == [cell \in Cells |-> get_domain(p, cell[1], cell[2])]

\* The cells of a grid that hold 0, in row-major order, as a sequence.
RECURSIVE empty_from(_, _)
empty_from(p, k) ==
    IF k >= N * N THEN <<>>
    ELSE LET row == k \div N
             col == k % N
         IN  IF p[row][col] = 0
             THEN <<<<row, col>>>> \o empty_from(p, k + 1)
             ELSE empty_from(p, k + 1)

\* deque((row, col) for row ... for col ... if self.puzzle[row][col] == 0)
init_queue(p) == empty_from(p, 0)

\* revise(xi, xj): the flag it returns and the domains it leaves.
revise_noshrink(dom, cell_i, cell_j) ==
    IF Cardinality(dom[cell_i]) = 1 /\ dom[cell_i] \cap dom[cell_j] # {}
    THEN [revised |-> TRUE, domains |-> dom]
    ELSE [revised |-> FALSE, domains |-> dom]

revise_undecided(dom, cell_i, cell_j) ==
    IF dom[cell_i] \cap dom[cell_j] # {}
    THEN [revised |-> TRUE,
          domains |-> [dom EXCEPT ![cell_j] = dom[cell_j] \ dom[cell_i]]]
    ELSE [revised |-> FALSE, domains |-> dom]

revise(dom, cell_i, cell_j) ==
    IF Cardinality(dom[cell_i]) = 1 /\ dom[cell_i] \cap dom[cell_j] # {}
    THEN [revised |-> TRUE,
          domains |-> [dom EXCEPT ![cell_j] = dom[cell_j] \ dom[cell_i]]]
    ELSE [revised |-> FALSE, domains |-> dom]

apply_domains_nonempty(p, dom) ==
    [r \in Idx |-> [c \in Idx |->
        IF dom[<<r, c>>] # {}
        THEN CHOOSE v \in dom[<<r, c>>] : TRUE
        ELSE p[r][c]]]

\* for row, col in domains: if len(...) == 1: self.puzzle[row][col] = ....pop()
apply_domains(p, dom) ==
    [r \in Idx |-> [c \in Idx |->
        IF Cardinality(dom[<<r, c>>]) = 1
        THEN CHOOSE v \in dom[<<r, c>>] : TRUE
        ELSE p[r][c]]]

pop_singletons(dom) ==
    [cell \in Cells |-> IF Cardinality(dom[cell]) = 1 THEN {} ELSE dom[cell]]

(***************************************************************************)
(* References and Python list indexing                                     *)
(***************************************************************************)
Difficulties == {"Easy", "Medium", "Hard"}

\* The list object created for self.puzzle by __init__ or start(), and the
\* one created for self.original_puzzle by __init__ or load_puzzle().
PuzzleObj == <<"self.puzzle", 0>>
OriginalObj == <<"self.original_puzzle", 0>>

\* The list objects _read_puzzle_file builds: one per puzzle of each file.
StoredRefs(f) ==
    UNION {{<<d, i - 1>> : i \in 1 .. Len(f[d])} : d \in Difficulties}

StoredList(f, d) == [i \in 1 .. Len(f[d]) |-> <<d, i - 1>>]

\* lst[index]: negative indices count from the end; out of range raises.
PyIndexInRange(lst, index) == -Len(lst) <= index /\ index < Len(lst)
PyIndex(lst, index) ==
    IF index >= 0 THEN lst[index + 1] ELSE lst[Len(lst) + index + 1]

NoFrame == <<>>

(***************************************************************************)
(* Inputs: the puzzle files.  A puzzle is the solved grid Solved with the  *)
(* cells of a set of holes blanked, and possibly a digit entered in the    *)
(* top-left cell when that cell is a hole.                                 *)
(***************************************************************************)
PoolSize == 6
MaxEntry == 3
MaxIndex == 1
MaxKey == 1

Solved ==
    [r \in Idx |-> [c \in Idx |->
        N - ((BLOCK * (r % BLOCK) + (r \div BLOCK) + c) % N)]]

\* The first PoolSize cells, in row-major order, of columns 0, 3 and 6 of
\* the top band: Solved holds 3, 6 and 9 there.
Pool ==
    {cell \in (0 .. (BLOCK - 1)) \X {0, BLOCK, 2 * BLOCK} :
        BLOCK * cell[1] + (cell[2] \div BLOCK) < PoolSize}

\* Fifteen holes that leave Solved as the only completion although no
\* empty cell starts with fewer than two candidates.
Stuck ==
    {<<0, 1>>, <<0, 2>>, <<0, 3>>, <<1, 0>>, <<1, 3>>, <<2, 0>>, <<2, 4>>,
     <<2, 5>>, <<3, 0>>, <<3, 1>>, <<3, 2>>, <<3, 5>>, <<5, 3>>, <<5, 4>>,
     <<5, 5>>}

Punch(grid, holes) ==
    [r \in Idx |-> [c \in Idx |-> IF <<r, c>> \in holes THEN 0 ELSE grid[r][c]]]

Enter(grid, v) ==
    IF v # 0 /\ grid[0][0] = 0 THEN SetCell(grid, 0, 0, v) ELSE grid

EntryDigits == {0} \cup ((N - MaxEntry) .. N)

HoleSets ==
    (SUBSET Pool) \cup {Stuck \cup more : more \in SUBSET {<<0, 6>>, <<2, 6>>}}

InputGrids == {Enter(Punch(Solved, holes), v) : holes \in HoleSets, v \in EntryDigits}

GameGrids ==
    {Punch(Solved, {<<0, 0>>, <<0, 3>>, <<1, 0>>, <<1, 3>>} \cup extra) :
        extra \in {{}, {<<0, 6>>}}}

(***************************************************************************)
(* Initial states                                                          *)
(***************************************************************************)
\* SudokuGame.__init__ followed by load_puzzles() on the files f.
Constructed(f) ==
    /\ files = f
    /\ puzzles = [d \in Difficulties |-> StoredList(f, d)]
    /\ heap = [ref \in StoredRefs(f) \cup {PuzzleObj, OriginalObj} |->
                 IF ref \in {PuzzleObj, OriginalObj} THEN ZeroGrid
                 ELSE f[ref[1]][ref[2] + 1]]
    /\ puzzle = PuzzleObj
    /\ original_puzzle = OriginalObj
    /\ ui_row = 0
    /\ ui_col = 0
    /\ pc = "idle"
    /\ domains = NoFrame
    /\ queue = <<>>
    /\ xi = None
    /\ pending = {}
    /\ ret = FALSE
    /\ call = <<"load_puzzles">>
    /\ start_grid = None
    /\ loaded_grid = None
    /\ enqueued = 0
    /\ fell_back = FALSE

GameInit ==
    \E a \in GameGrids :
        Constructed([Easy |-> <<a>>, Medium |-> <<>>, Hard |-> <<>>])

(***************************************************************************)
(* Operations of SudokuGame                                                *)
(***************************************************************************)
Current == heap[puzzle]

\* An index below -len passes the guard and then raises IndexError at the
\* subscript, before any assignment: the state is left as it was.
load_puzzle(difficulty, index) ==
    /\ pc = "idle"
    /\ call' = <<"load_puzzle", difficulty, index>>
    /\ IF difficulty \in DOMAIN puzzles /\ index < Len(puzzles[difficulty])
       THEN IF PyIndexInRange(puzzles[difficulty], index)
            THEN LET ref == PyIndex(puzzles[difficulty], index)
                 IN  /\ puzzle' = ref
                     /\ original_puzzle' = OriginalObj
                     /\ heap' = [heap EXCEPT ![OriginalObj] = CopyRows(heap[ref])]
                     /\ loaded_grid' = heap[ref]
            ELSE UNCHANGED <<puzzle, original_puzzle, heap, loaded_grid>>
       ELSE UNCHANGED <<puzzle, original_puzzle, heap, loaded_grid>>
    /\ UNCHANGED <<files, puzzles, ui_row, ui_col, pc, domains, queue, xi,
                   pending, ret, start_grid, enqueued,
                   fell_back>>

start_from_puzzle ==
    /\ pc = "idle"
    /\ call' = <<"start">>
    /\ puzzle' = PuzzleObj
    /\ heap' = [heap EXCEPT ![PuzzleObj] = CopyRows(heap[puzzle])]
    /\ UNCHANGED <<files, puzzles, original_puzzle, ui_row, ui_col, pc, domains,
                   queue, xi, pending, ret, start_grid, loaded_grid, enqueued,
                   fell_back>>

start ==
    /\ pc = "idle"
    /\ call' = <<"start">>
    /\ puzzle' = PuzzleObj
    /\ heap' = [heap EXCEPT ![PuzzleObj] = CopyRows(heap[original_puzzle])]
    /\ UNCHANGED <<files, puzzles, original_puzzle, ui_row, ui_col, pc, domains,
                   queue, xi, pending, ret, start_grid, loaded_grid, enqueued,
                   fell_back>>

\* timed_backtracking_solve -> backtracking_solve on self.puzzle, in place
BacktrackingSolve ==
    /\ pc = "idle"
    /\ call' = <<"backtracking_solve">>
    /\ start_grid' = Current
    /\ LET result == backtracking_solve(Current)
       IN  /\ heap' = [heap EXCEPT ![puzzle] = result.puzzle]
           /\ ret' = result.ret
    /\ UNCHANGED <<files, puzzles, puzzle, original_puzzle, ui_row, ui_col, pc,
                   domains, queue, xi, pending, loaded_grid, enqueued,
                   fell_back>>

(***************************************************************************)
(* ac3_solve, one step per dequeue, per successful revise, per phase.      *)
(* The for loop visits get_neighbors(row, col) in the iteration order of a *)
(* Python set, which the language leaves unspecified: any order may occur. *)
(* A visit whose revise returns False changes nothing, so only the visits  *)
(* that revise are steps; AC3ForEnd is the end of the loop.                *)
(***************************************************************************)
AC3Begin ==
    /\ pc = "idle"
    /\ call' = <<"ac3_solve">>
    /\ start_grid' = Current
    /\ domains' = init_domains(Current)
    /\ queue' = init_queue(Current)
    /\ enqueued' = Len(init_queue(Current))
    /\ xi' = None
    /\ pending' = {}
    /\ pc' = "while"
    /\ fell_back' = FALSE
    /\ UNCHANGED <<files, puzzles, heap, puzzle, original_puzzle, ui_row, ui_col,
                   ret, loaded_grid>>

AC3Dequeue ==
    /\ pc = "while"
    /\ queue # <<>>
    /\ xi' = Head(queue)
    /\ queue' = Tail(queue)
    /\ pending' = get_neighbors(Head(queue)[1], Head(queue)[2])
    /\ pc' = "for"
    /\ UNCHANGED <<files, puzzles, heap, puzzle, original_puzzle, ui_row, ui_col,
                   domains, ret, call, start_grid, loaded_grid, enqueued,
                   fell_back>>

AC3Revise ==
    /\ pc = "for"
    /\ \E neighbor \in pending :
         LET r == revise(domains, xi, neighbor)
         IN  /\ r.revised
             /\ pending' = pending \ {neighbor}
             /\ IF Cardinality(r.domains[xi]) = 0
                THEN \* return False
                     /\ pc' = "idle"
                     /\ ret' = FALSE
                     /\ domains' = NoFrame
                     /\ UNCHANGED <<queue, enqueued>>
                ELSE /\ queue' = Append(queue, neighbor)
                     /\ enqueued' = enqueued + 1
                     /\ domains' = r.domains
                     /\ UNCHANGED <<pc, ret>>
    /\ UNCHANGED <<files, puzzles, heap, puzzle, original_puzzle, ui_row, ui_col,
                   xi, call, start_grid, loaded_grid, fell_back>>

AC3ForEnd ==
    /\ pc = "for"
    /\ \A neighbor \in pending : ~ revise(domains, xi, neighbor).revised
    /\ pending' = {}
    /\ pc' = "while"
    /\ UNCHANGED <<files, puzzles, heap, puzzle, original_puzzle, ui_row, ui_col,
                   domains, queue, xi, ret, call, start_grid, loaded_grid,
                   enqueued,
                   fell_back>>

AC3Apply ==
    /\ pc = "while"
    /\ queue = <<>>
    /\ heap' = [heap EXCEPT ![puzzle] = apply_domains(Current, domains)]
    /\ domains' = pop_singletons(domains)
    /\ pc' = "check"
    /\ UNCHANGED <<files, puzzles, puzzle, original_puzzle, ui_row, ui_col, queue,
                   xi, pending, ret, call, start_grid, loaded_grid, enqueued,
                   fell_back>>

AC3Finish ==
    /\ pc = "check"
    /\ heap' = IF ~ check_win(Current)
               THEN [heap EXCEPT ![puzzle] = backtracking_solve(Current).puzzle]
               ELSE heap
    /\ fell_back' = ~ check_win(Current)
    /\ ret' = TRUE
    /\ pc' = "idle"
    /\ domains' = NoFrame
    /\ xi' = None
    /\ UNCHANGED <<files, puzzles, puzzle, original_puzzle, ui_row, ui_col, queue,
                   pending, call, start_grid, enqueued, loaded_grid>>

(***************************************************************************)
(* SudokuUI handlers that touch the grid                                   *)
(***************************************************************************)
CellClicked(row, col) ==
    /\ pc = "idle"
    /\ call' = <<"cell_clicked">>
    /\ IF check_win(Current) THEN UNCHANGED <<ui_row, ui_col>>
       ELSE IF <<row, col>> = <<ui_row, ui_col>>
            THEN ui_row' = -1 /\ ui_col' = -1
            ELSE IF Current[row][col] = 0
                 THEN ui_row' = row /\ UNCHANGED ui_col
                 ELSE UNCHANGED <<ui_row, ui_col>>
    /\ UNCHANGED <<files, puzzles, heap, puzzle, original_puzzle, pc, domains,
                   queue, xi, pending, ret, start_grid, loaded_grid, enqueued,
                   fell_back>>

KeyPressed(digit) ==
    /\ pc = "idle"
    /\ call' = <<"key_pressed">>
    /\ IF ~ check_win(Current) /\ ui_row >= 0 /\ ui_col >= 0
       THEN /\ heap' = [heap EXCEPT ![puzzle] = SetCell(Current, ui_row, ui_col, digit)]
            /\ ui_row' = -1
            /\ ui_col' = -1
       ELSE UNCHANGED <<heap, ui_row, ui_col>>
    /\ UNCHANGED <<files, puzzles, puzzle, original_puzzle, pc, domains, queue,
                   xi, pending, ret, start_grid, loaded_grid, enqueued,
                   fell_back>>

(***************************************************************************)
(* Specifications                                                          *)
(***************************************************************************)
\* Spec: a game that has just loaded one puzzle, driven by the Solve button.
Init ==
    \E g \in InputGrids :
        \E f \in {[Easy |-> <<g>>, Medium |-> <<>>, Hard |-> <<>>]} :
            /\ files = f
            /\ puzzles = [d \in Difficulties |-> StoredList(f, d)]
            /\ heap = [ref \in StoredRefs(f) \cup {PuzzleObj, OriginalObj} |->
                         IF ref = PuzzleObj THEN ZeroGrid ELSE g]
            /\ puzzle = <<"Easy", 0>>
            /\ original_puzzle = OriginalObj
            /\ ui_row = 0
            /\ ui_col = 0
            /\ pc = "idle"
            /\ domains = NoFrame
            /\ queue = <<>>
            /\ xi = None
            /\ pending = {}
            /\ ret = FALSE
            /\ call = <<"load_puzzle", "Easy", 0>>
            /\ start_grid = None
            /\ loaded_grid = g
            /\ enqueued = 0
            /\ fell_back = FALSE
    /\ fell_back = FALSE

\* The steps of the revision loop, up to the step that leaves it.
AC3LoopStep == AC3Dequeue \/ AC3Revise \/ AC3ForEnd \/ AC3Apply

Next ==
    \/ BacktrackingSolve
    \/ AC3Begin
    \/ AC3Dequeue
    \/ AC3Revise
    \/ AC3ForEnd
    \/ AC3Apply
    \/ AC3Finish

Spec == Init /\ [][Next]_vars

\* ac3_solve runs on the calling thread: a loop that can step does step.
FairSpec == Spec /\ WF_vars(AC3LoopStep)

\* GameSpec: a freshly constructed game under every operation.
LoadAny ==
    \E difficulty \in Difficulties \cup {"Expert"} :
        \E index \in (-MaxIndex) .. MaxIndex : load_puzzle(difficulty, index)

ClickAny == \E row \in {0, 1} : \E col \in {0, 3} : CellClicked(row, col)

KeyAny == \E digit \in 0 .. MaxKey : KeyPressed(digit)

\* The Solve button is pressed on a loaded puzzle: the search over the
\* all-zero grid of a game that never loaded anything is not explored.
SolveLoaded(step) == loaded_grid # None /\ step

GameNext ==
    \/ LoadAny
    \/ start
    \/ ClickAny
    \/ KeyAny
    \/ SolveLoaded(BacktrackingSolve)
    \/ SolveLoaded(AC3Begin)
    \/ AC3Dequeue
    \/ AC3Revise
    \/ AC3ForEnd
    \/ AC3Apply
    \/ AC3Finish

GameSpec == GameInit /\ [][GameNext]_vars

(***************************************************************************)
(* Vocabulary of the properties, stated without the solver's own helpers   *)
(***************************************************************************)
SameUnit(a, b) ==
    \/ a[1] = b[1]
    \/ a[2] = b[2]
    \/ (a[1] \div BLOCK = b[1] \div BLOCK) /\ (a[2] \div BLOCK = b[2] \div BLOCK)

At(grid, cell) == grid[cell[1]][cell[2]]

EmptyCells(grid) == {cell \in Cells : At(grid, cell) = 0}

\* The other cells of the row, the column and the block of each cell.
Peers == [a \in Cells |-> {b \in Cells \ {a} : SameUnit(a, b)}]

\* No non-zero value occurs twice in a row, a column or a block.
NoRepeat(grid) ==
    \A a \in Cells :
        At(grid, a) # 0 => \A b \in Peers[a] : At(grid, a) # At(grid, b)

Full(grid) == EmptyCells(grid) = {}

\* Every non-zero cell of base keeps its value in grid.
Extends(grid, base) ==
    \A cell \in Cells : At(base, cell) # 0 => At(grid, cell) = At(base, cell)

\* All valid completions of a grid: fill one empty cell (here the last one)
\* with every digit no cell of its units holds, and so on.
RECURSIVE Completions(_)
Completions(grid) ==
    IF Full(grid) THEN (IF NoRepeat(grid) THEN {grid} ELSE {})
    ELSE LET cell == CHOOSE c \in EmptyCells(grid) :
                        \A d \in EmptyCells(grid) :
                            N * d[1] + d[2] <= N * c[1] + c[2]
             free == {v \in Digits : \A b \in Peers[cell] : At(grid, b) # v}
         IN  UNION {Completions(SetCell(grid, cell[1], cell[2], v)) : v \in free}

\* g comes before h when they differ and g is smaller at the first cell, in
\* row-major order, where they differ.
Before(g, h) ==
    \E cell \in Cells :
        /\ At(g, cell) < At(h, cell)
        /\ \A d \in Cells :
              (N * d[1] + d[2] < N * cell[1] + cell[2]) => At(g, d) = At(h, d)

First(grids) == CHOOSE g \in grids : \A h \in grids : g = h \/ Before(g, h)

\* The grid the search had when it chose the value of cell: the cells
\* before cell, in row-major order, as in grid, the others as in base.
Context(base, grid, cell) ==
    [r \in Idx |-> [c \in Idx |->
        IF N * r + c < N * cell[1] + cell[2] THEN grid[r][c] ELSE base[r][c]]]

\* The search from base that ended with grid wrote a digit into some cell
\* and took it back: a digit admissible there was passed over, either
\* because a larger one stayed or because the first empty cell ended empty.
Undid(base, grid) ==
    \E cell \in EmptyCells(base) : \E v \in Digits :
        /\ is_valid(Context(base, grid, cell), v, cell[1], cell[2])
        /\ IF At(grid, cell) = 0 THEN cell = find_empty_cell(base)
           ELSE v < At(grid, cell)

ReturnedFrom(name) == pc = "idle" /\ call = <<name>>

InLoop == pc \in {"while", "for"}

DomainTotal(dom) ==
    LET RECURSIVE Sum(_)
        Sum(k) == IF k >= N * N THEN 0
                  ELSE Cardinality(dom[<<k \div N, k % N>>]) + Sum(k + 1)
    IN  Sum(0)

(***************************************************************************)
(* Properties                                                              *)
(***************************************************************************)
\* C1: from a grid without repeated values, a backtracking_solve that
\* returns True leaves a full grid without repeated values in which every
\* given still holds its starting value.
C1_BacktrackingSuccessIsValidCompletion ==
    (ReturnedFrom("backtracking_solve") /\ ret = TRUE /\ NoRepeat(start_grid))
        => /\ Full(Current)
           /\ NoRepeat(Current)
           /\ Extends(Current, start_grid)

C1_Witness ==
    /\ ReturnedFrom("backtracking_solve")
    /\ ret = TRUE
    /\ NoRepeat(start_grid)
    /\ Cardinality(EmptyCells(start_grid)) >= 4
    /\ Undid(start_grid, Current)

\* C2: when the starting grid has a valid completion, backtracking_solve
\* returns True and leaves the completion that the fixed search order
\* determines: the first one in row-major, ascending-digit order.
C2_BacktrackingFindsFirstCompletion ==
    (ReturnedFrom("backtracking_solve") /\ Completions(start_grid) # {})
        => /\ ret = TRUE
           /\ Current = First(Completions(start_grid))

C2_Witness ==
    /\ ReturnedFrom("backtracking_solve")
    /\ ret = TRUE
    /\ Cardinality(Completions(start_grid)) >= 2
    /\ Undid(start_grid, Current)
    /\ Current # Solved

\* C3: a backtracking_solve that returns False leaves the grid exactly as it
\* was when the call began.
C3_BacktrackingFailureRestoresGrid ==
    (ReturnedFrom("backtracking_solve") /\ ret = FALSE) => Current = start_grid

C3_Witness ==
    /\ ReturnedFrom("backtracking_solve")
    /\ ret = FALSE
    /\ NoRepeat(start_grid)
    /\ Undid(start_grid, Current)

\* C4: once a revision has left a domain empty the revision loop is no
\* longer running: ac3_solve has returned False and has written nothing.
C4_EmptyDomainAbortsPropagation ==
    (call = <<"ac3_solve">> /\ pc \in {"while", "for", "check"})
        => \A cell \in Cells :
              get_domain(start_grid, cell[1], cell[2]) # {}
                  => \/ domains[cell] # {}
                     \/ pc = "check" /\ At(Current, cell) # 0

\* C5: from a grid with exactly one valid completion, ac3_solve and
\* backtracking_solve alone end with the same grid, the unique completion.
C5_SolversAgreeOnUniquePuzzle ==
    (ReturnedFrom("ac3_solve") /\ Cardinality(Completions(start_grid)) = 1)
        => /\ Current = backtracking_solve(start_grid).puzzle
           /\ Current \in Completions(start_grid)

C5_Witness ==
    /\ ReturnedFrom("ac3_solve")
    /\ Cardinality(Completions(start_grid)) = 1
    /\ fell_back
    /\ enqueued > Cardinality(EmptyCells(start_grid))

\* C6: a load_puzzle at a valid position yields, as current grid and as
\* snapshot, the puzzle as the file gave it, whatever happened before.
C6_LoadYieldsStoredPuzzle ==
    \A d \in Difficulties : \A i \in 0 .. (Len(files[d]) - 1) :
        call = <<"load_puzzle", d, i>>
            => /\ Current = files[d][i + 1]
               /\ heap[original_puzzle] = files[d][i + 1]

\* C7: after a load, the snapshot stays the grid as loaded, and start()
\* makes the current grid equal to it.
C7_ResetRestoresLoadedGrid ==
    loaded_grid # None
        => /\ heap[original_puzzle] = loaded_grid
           /\ (pc = "idle" /\ call = <<"start">>) => Current = loaded_grid

C7_Witness ==
    /\ call = <<"start">>
    /\ loaded_grid # None
    /\ start_grid # None
    /\ heap[<<"Easy", 0>>] # loaded_grid

\* C8: load_puzzle with an unknown difficulty or an index that is not a
\* position of the tier's list changes neither the grid nor the snapshot.
ValidPosition(d, i) == d \in Difficulties /\ 0 <= i /\ i < Len(files[d])

C8_InvalidLoadIsNoOp ==
    [][\A d \in Difficulties \cup {"Expert"} : \A i \in (-MaxIndex) .. MaxIndex :
          (call' = <<"load_puzzle", d, i>> /\ ~ ValidPosition(d, i))
              => /\ puzzle' = puzzle
                 /\ original_puzzle' = original_puzzle
                 /\ heap' = heap]_vars

\* C9: inside the revision loop domains only shrink, every enqueue after the
\* seeding removes a value from a domain, so the enqueues never exceed the
\* empty cells plus the initial domain sizes; and the loop is left.
C9_EnqueueBound ==
    (call = <<"ac3_solve">> /\ InLoop)
        => /\ enqueued - Cardinality(EmptyCells(start_grid)) + DomainTotal(domains)
                = DomainTotal(init_domains(start_grid))
           /\ \A cell \in Cells :
                domains[cell] \subseteq get_domain(start_grid, cell[1], cell[2])
           /\ Len(queue) <= enqueued

C9_RevisionLoopTerminates ==
    /\ [] C9_EnqueueBound
    /\ [] (InLoop => <> ~ InLoop)

C9_Witness ==
    /\ ReturnedFrom("ac3_solve")
    /\ enqueued >= Cardinality(EmptyCells(start_grid)) + 3

\* C10: from a grid without repeated values, ac3_solve never revises the
\* domain of a given, never ends propagation with two cells of one unit on
\* the same single candidate, and returns a grid without repeated values
\* that keeps every given.
C10_AC3KeepsGridConsistent ==
    (call = <<"ac3_solve">> /\ NoRepeat(start_grid))
        => /\ InLoop =>
                \A cell \in Cells :
                    At(start_grid, cell) # 0 => domains[cell] = {At(start_grid, cell)}
           /\ (pc = "while" /\ queue = <<>>) =>
                \A a \in Cells : \A b \in Cells :
                    (b \in Peers[a] /\ Cardinality(domains[a]) = 1)
                        => domains[a] # domains[b]
           /\ pc \in {"check", "idle"} =>
                /\ NoRepeat(Current)
                /\ Extends(Current, start_grid)

C10_Witness ==
    /\ ReturnedFrom("ac3_solve")
    /\ NoRepeat(start_grid)
    /\ ~ Full(Current)
    /\ Current # start_grid
    /\ fell_back

====
